---- MODULE Spec2Model ----
(***************************************************************************)
(* A model of src/main.js: the viewing-history store (record / list /     *)
(* reset over one SQLite table) and the Gemini lookup with its            *)
(* response-parsing step.                                                  *)
(*                                                                         *)
(* JavaScript values are tagged records.  A JavaScript string is a        *)
(* sequence of chunks; a chunk is one character, or an indivisible run of *)
(* characters none of which is whitespace or a backquote.  The Japanese    *)
(* message literals of the source and the backquote character are written *)
(* with ASCII stand-ins, each a named definition.                           *)
(*                                                                         *)
(* A handler that calls db.run, db.all, db.close or the Gemini client      *)
(* returns to the event loop before the callback runs: the call is one     *)
(* step, its callback another, and whatever else the process can do may    *)
(* happen in between.  The same holds for the opening of the database and  *)
(* the CREATE TABLE issued from its callback.                              *)
(***************************************************************************)
EXTENDS Integers, Sequences, FiniteSets, Bags, TLC

\* ------------------------------------------------------------------ bounds
MaxRows == 2
MaxClock == 2
MaxInFlight == 2

\* ------------------------------------------------------------ JS values
Undef == [k |-> "undef"]
Str(s) == [k |-> "str", s |-> s]
Num(n) == [k |-> "int", n |-> n]
List(l) == [k |-> "list", l |-> l]

\* JavaScript truthiness, as used by !x, x ? a : b, x && y and x || y.
Truthy(v) ==
    CASE v.k = "undef" -> FALSE
      [] v.k = "null" -> FALSE
      [] v.k = "str" -> Len(v.s) > 0
      [] v.k = "int" -> v.n # 0
      [] OTHER -> TRUE

\* `${v}` for the values that reach a template literal.
TemplateText(v) ==
    CASE v.k = "str" -> v.s
      [] v.k = "int" -> <<ToString(v.n)>>
      [] OTHER -> <<"undefined">>

\* --------------------------------------------------------------- strings
BQ == "<backquote>"
IsWs(c) == c \in {" ", "\n", "\t", "\r"}

RECURSIVE TrimLeft(_)
TrimLeft(s) ==
    IF s # <<>> /\ IsWs(Head(s)) THEN TrimLeft(Tail(s)) ELSE s

RECURSIVE TrimRight(_)
TrimRight(s) ==
    IF s # <<>> /\ IsWs(s[Len(s)]) THEN TrimRight(SubSeq(s, 1, Len(s) - 1)) ELSE s

\* String.prototype.trim
Trim(s) == TrimRight(TrimLeft(s))

StartsWith(s, p) == Len(s) >= Len(p) /\ SubSeq(s, 1, Len(p)) = p
EndsWith(s, p) == Len(s) >= Len(p) /\ SubSeq(s, Len(s) - Len(p) + 1, Len(s)) = p
DropFirst(s, n) == SubSeq(s, n + 1, Len(s))
DropLast(s, n) == SubSeq(s, 1, Len(s) - n)

\* t occurs in s as a contiguous run of chunks.
IsInfix(t, s) ==
    \E i \in 0..(Len(s) - Len(t)) : SubSeq(s, i + 1, i + Len(t)) = t

RECURSIVE Join(_, _)
\* Array.prototype.join over a list of strings (each one chunk here).
Join(l, sep) ==
    IF l = <<>> THEN <<>>
    ELSE IF Len(l) = 1 THEN <<l[1]>>
    ELSE <<l[1], sep>> \o Join(Tail(l), sep)

RECURSIVE Flatten(_)
Flatten(ss) == IF ss = <<>> THEN <<>> ELSE Head(ss) \o Flatten(Tail(ss))

\* ------------------------------------------------------ message literals
MSG_REQUIRED == "Error: title, start date and end date are required."
MSG_RECORDED == "Recorded viewing history: '"
MSG_EMPTY == "No viewing history yet."
MSG_HEADER == "--- Viewing history ---\n"
MSG_DB_CLOSED == "SQLITE_MISUSE: Database is closed"
MSG_HANDLE_CLOSED == "SQLITE_MISUSE: Database handle is closed"
MSG_NO_TABLE == "SQLITE_ERROR: no such table: ViewingHistory"
MSG_ENTER_TITLE == "Please enter a title."
MSG_UNPARSEABLE == "Could not parse the response from Gemini.\n\n---\n"
MSG_NO_INFO == "(no info)"
MSG_RECOMMEND == "--- AI recommendations ---\nThe AI recommendation feature is under development."
MSG_RULE == "----------------------------------------\n"
MSG_ATTRIBUTION == "\n(This information was generated by Gemini)"

\* ----------------------------------------------------------------- state
VARIABLES
    proc,        \* "running" | "quitting" (app.quit called) | "exited"
    relaunch,    \* app.relaunch was called and the new process has not started
    handle,      \* the sqlite3 Database object: "opening" | "openingClose" |
                 \* "open" | "draining" | "closing" | "closed" | "failed"
    file,        \* DB_PATH: "none" | "empty" (no table yet) | "table"
    rows,        \* the ViewingHistory table in rowid order (<<>> without table)
    now,         \* the millisecond wall clock read by new Date()
    pending,     \* bag of calls handed over and not yet called back
    last         \* the answers given by the most recent step

vars == <<proc, relaunch, handle, file, rows, now, pending, last>>

Outcome(op, data, env, status, success, text, order, at) ==
    [op |-> op, data |-> data, env |-> env, status |-> status,
     success |-> success, text |-> text, order |-> order, at |-> at]

NoEnv == [kind |-> "none", pre |-> <<>>, payload |-> "", suf |-> <<>>, message |-> ""]

\* ------------------------------------------------------- record-history
\* The object a caller passes to 'record-history'; recordedAt is a field a
\* caller may add, which the destructuring at line 76 does not read.
Obj(t, s, e, r, n, g, ra) ==
    [k |-> "obj", mediaTitle |-> t, startDate |-> s, endDate |-> e,
     rating |-> r, notes |-> n, tags |-> g, recordedAt |-> ra]

\* line 77: !mediaTitle || !startDate || !endDate is false
Valid(data) ==
    Truthy(data.mediaTitle) /\ Truthy(data.startDate) /\ Truthy(data.endDate)

RecordedAt_FromCaller(data, clock) ==
    IF data.recordedAt.k = "int" THEN data.recordedAt.n ELSE clock

\* line 80: new Date().toISOString(); a fixed-width text whose byte order is
\* the order of the clock, kept as the clock's reading.
RecordedAt(data, clock) == clock

\* lines 81-82 with the table's AUTOINCREMENT id (line 18); recordedAt is
\* the value line 80 computed when the handler ran.
NewRow(data, id, recordedAt) ==
    [id |-> id, media_title |-> data.mediaTitle, start_date |-> data.startDate,
     end_date |-> data.endDate, rating |-> data.rating, notes |-> data.notes,
     recorded_at |-> recordedAt, tags |-> data.tags]

InsertRow_Replace(tbl, row) == <<row>>

\* line 81: INSERT INTO ViewingHistory
InsertRow(tbl, row) == Append(tbl, row)


\* A call in flight: a db.run / db.all statement (op "record", "list",
\* "create"), a db.close waiting behind another (op "close") or a Gemini
\* call (op "search").  at is the recordedAt of line 80; behind says the
\* statement is queued behind a db.close; result is empty until the
\* library has executed the statement and then holds what its callback
\* will answer.
Request(op, data, at, behind) ==
    [op |-> op, data |-> data, at |-> at, behind |-> behind, result |-> <<>>]
Executed(r, outcome) == [r EXCEPT !.result = <<outcome>>]

\* lines 75-91 under the handler of lines 33-40: what the caller gets.
\* res is what db.run called back with: "ok", an error message, or "none"
\* when line 84 is not reached; at is the store the statement met.
recordViewingHistory(data, res, at) ==
    IF data.k # "obj"
    THEN \* line 76 throws TypeError inside the Promise executor
         Outcome("record", data, NoEnv, "rejected", "n/a", <<"TypeError">>, <<>>, "n/a")
    ELSE IF ~Valid(data)
    THEN Outcome("record", data, NoEnv, "resolved", "false", <<MSG_REQUIRED>>, <<>>, "n/a")
    ELSE IF res = "ok"
    THEN Outcome("record", data, NoEnv, "resolved", "true",
                 <<MSG_RECORDED>> \o TemplateText(data.mediaTitle) \o <<"'">>, <<>>, at)
    ELSE Outcome("record", data, NoEnv, "resolved", "false", <<res>>, <<>>, at)

\* line 84 is reached
ReachesDb(data) == data.k = "obj" /\ Valid(data)

\* --------------------------------------------------------- get-history
\* lines 103-107
FormatRow(row) ==
    LET rating_str == IF Truthy(row.rating)
                      THEN <<" (rating:">> \o TemplateText(row.rating) \o <<")">>
                      ELSE <<>>
        notes_str == IF Truthy(row.notes) /\ Trim(row.notes.s) # <<>>
                     THEN <<" [memo: ">> \o row.notes.s \o <<"]">>
                     ELSE <<>>
        tags_str == IF Truthy(row.tags) /\ Trim(row.tags.s) # <<>>
                    THEN <<" [tags: ">> \o row.tags.s \o <<"]">>
                    ELSE <<>>
    IN  <<"* ">> \o TemplateText(row.start_date) \o <<" ~ ">>
        \o TemplateText(row.end_date) \o <<": ">> \o TemplateText(row.media_title)
        \o rating_str \o notes_str \o tags_str \o <<"\n">>

\* line 94: the orders ORDER BY recorded_at DESC may return; SQL leaves the
\* order of rows with equal recorded_at to the engine.
Listings(tbl) ==
    { o \in [1..Len(tbl) -> 1..Len(tbl)] :
        /\ \A i, j \in 1..Len(tbl) : i # j => o[i] # o[j]
        /\ \A i, j \in 1..Len(tbl) :
              i < j => tbl[o[i]].recorded_at >= tbl[o[j]].recorded_at }

\* lines 93-111 under the handler of lines 42-49.  res is what db.all
\* called back with ("ok" or an error message), tbl the table the query
\* read, order the row order it returned.
getAllViewingHistory(res, tbl, order, at) ==
    IF res # "ok"
    THEN Outcome("list", Undef, NoEnv, "resolved", "n/a", <<res>>, <<>>, at)
    ELSE IF Len(tbl) = 0
    THEN Outcome("list", Undef, NoEnv, "resolved", "n/a", <<MSG_EMPTY>>, <<>>, at)
    ELSE Outcome("list", Undef, NoEnv, "resolved", "n/a",
                 <<MSG_HEADER>> \o Flatten([i \in 1..Len(tbl) |-> FormatRow(tbl[order[i]])]),
                 [i \in 1..Len(tbl) |-> tbl[order[i]].id], at)

\* -------------------------------------------------------- search-media
\* What the Gemini call of lines 117-119 does: "transport" throws an Error
\* with a message, "reply" returns the text pre . payload . suf.
Env(kind, pre, payload, suf, message) ==
    [kind |-> kind, pre |-> pre, payload |-> payload, suf |-> suf, message |-> message]
Raw(env) == env.pre \o <<env.payload>> \o env.suf

FenceJson == <<BQ, BQ, BQ, "j", "s", "o", "n">>
Fence == <<BQ, BQ, BQ>>

\* line 120: .replace(/^```json\s*|```$/g, '')
StripFence(s) ==
    LET r == IF StartsWith(s, FenceJson) THEN TrimLeft(DropFirst(s, Len(FenceJson))) ELSE s
    IN  IF EndsWith(r, Fence) THEN DropLast(r, Len(Fence)) ELSE r

\* line 120: the reply as handed to JSON.parse
CleanReply(raw) == Trim(StripFence(raw))

\* JSON texts the service may send, each one chunk.
P_FULL == "{\"summary\":\"S\",\"genre\":[\"A\",\"B\"],\"streaming_sites\":[\"Netflix\"]}"
P_TWO_SITES == "{\"summary\":\"T\",\"genre\":[\"A\"],\"streaming_sites\":[\"Hulu\",\"Netflix\"]}"
P_EMPTY_OBJECT == "{}"
P_EMPTY_FIELDS == "{\"summary\":\"\",\"genre\":[],\"streaming_sites\":[]}"
P_GENRE_STRING == "{\"summary\":\"S\",\"genre\":\"Drama\",\"streaming_sites\":[\"Netflix\"]}"
P_SITES_STRING == "{\"summary\":\"S\",\"genre\":[\"A\"],\"streaming_sites\":\"Netflix\"}"
P_NULL == "null"
P_NUMBER == "5"
P_PROSE == "Sorry, I could not find that title."

Info(summary, genre, sites) ==
    [k |-> "obj", summary |-> summary, genre |-> genre, streaming_sites |-> sites]

\* line 123: JSON.parse; [k |-> "fail"] is a SyntaxError.
JSONparse(text) ==
    IF Len(text) # 1 THEN [k |-> "fail"]
    ELSE CASE text[1] = P_FULL ->
                Info(Str(<<"S">>), List(<<"A", "B">>), List(<<"Netflix">>))
           [] text[1] = P_TWO_SITES ->
                Info(Str(<<"T">>), List(<<"A">>), List(<<"Hulu", "Netflix">>))
           [] text[1] = P_EMPTY_OBJECT -> Info(Undef, Undef, Undef)
           [] text[1] = P_EMPTY_FIELDS -> Info(Str(<<>>), List(<<>>), List(<<>>))
           [] text[1] = P_GENRE_STRING ->
                Info(Str(<<"S">>), Str(<<"Drama">>), List(<<"Netflix">>))
           [] text[1] = P_SITES_STRING ->
                Info(Str(<<"S">>), List(<<"A">>), Str(<<"Netflix">>))
           [] text[1] = P_NULL -> [k |-> "null"]
           [] text[1] = P_NUMBER -> [k |-> "int", n |-> 5]
           [] OTHER -> [k |-> "fail"]

\* info.f: undefined on a number, a TypeError on null (see FormatThrows).
Field(info, f) == IF info.k = "obj" THEN info[f] ELSE Undef

\* lines 126-128 throw a TypeError: a property of null, or .join / .map of
\* a truthy value that is no array.
FormatThrows(info) ==
    \/ info.k = "null"
    \/ Truthy(Field(info, "genre")) /\ Field(info, "genre").k # "list"
    \/ Truthy(Field(info, "streaming_sites")) /\ Field(info, "streaming_sites").k # "list"

\* lines 124-130
FormatInfo(mediaTitle, info) ==
    LET summary == Field(info, "summary")
        genre == Field(info, "genre")
        sites == Field(info, "streaming_sites")
    IN  <<"Title: '">> \o TemplateText(mediaTitle) \o <<"' info\n", MSG_RULE>>
        \o <<"[Summary]\n">>
        \o (IF Truthy(summary) THEN TemplateText(summary) ELSE <<MSG_NO_INFO>>)
        \o <<"\n\n", "[Genre]\n">>
        \o (IF Truthy(genre) THEN Join(genre.l, ", ") ELSE <<MSG_NO_INFO>>)
        \o <<"\n\n", "[Streaming sites]\n">>
        \o (IF Truthy(sites)
            THEN Flatten(Join([i \in 1..Len(sites.l) |-> <<"- ", sites.l[i]>>], <<"\n">>))
            ELSE <<MSG_NO_INFO>>)
        \o <<"\n", MSG_RULE, MSG_ATTRIBUTION>>

\* line 138
TransportMessage(mediaTitle, message) ==
    <<"Title: '">> \o TemplateText(mediaTitle)
    \o <<"' an error occurred while fetching the information.\nCheck the API key and the network connection.\n(error: ",
         message, ")">>

OnParseError_Rethrow(mediaTitle, text) ==
    TransportMessage(mediaTitle, "TypeError")

\* lines 131-134
OnParseError(mediaTitle, text) == <<MSG_UNPARSEABLE>> \o text

\* lines 113-140
searchMediaWithGemini(mediaTitle, env) ==
    IF ~Truthy(mediaTitle)
    THEN Outcome("search", mediaTitle, env, "resolved", "n/a", <<MSG_ENTER_TITLE>>, <<>>, "n/a")
    ELSE IF env.kind = "transport"
    THEN Outcome("search", mediaTitle, env, "resolved", "n/a",
                 TransportMessage(mediaTitle, env.message), <<>>, "n/a")
    ELSE LET text == CleanReply(Raw(env))
             info == JSONparse(text)
         IN  Outcome("search", mediaTitle, env, "resolved", "n/a",
                     IF info.k = "fail" \/ FormatThrows(info)
                     THEN OnParseError(mediaTitle, text)
                     ELSE FormatInfo(mediaTitle, info),
                     <<>>, "n/a")

\* lines 142-144
getAiRecommendationsMedia ==
    Outcome("recommend", Undef, NoEnv, "resolved", "n/a", <<MSG_RECOMMEND>>, <<>>, "n/a")


\* --------------------------------------------------------------- inputs
Optionals ==
    { <<Undef, Undef, Undef>>,
      <<Num(8), Str(<<"great">>), Str(<<"drama">>)>>,
      <<Num(0), Undef, Undef>>,
      <<Undef, Str(<<" ">>), Str(<<>>)>> }

Title == Str(<<"A">>)
StartDate == Str(<<"2024-01-01">>)
EndDate == Str(<<"2024-01-02">>)

\* Inputs with the three required fields.
Minimal == Obj(Title, StartDate, EndDate, Undef, Undef, Undef, Undef)
ValidInputs ==
    { Obj(Title, StartDate, EndDate, o[1], o[2], o[3], Undef) : o \in Optionals }

\* Inputs in which a required field is absent or empty.
InvalidInputs ==
    { Obj(t, s, e, Num(8), Str(<<"great">>), Undef, Undef) :
        t \in {Undef, Str(<<>>), Title},
        s \in {Undef, StartDate},
        e \in {Str(<<>>), EndDate} }
    \ { Obj(Title, StartDate, EndDate, Num(8), Str(<<"great">>), Undef, Undef) }

\* The inputs of the whole-program specification: no argument, and a
\* record with every field given together with a recordedAt of the
\* caller's own.
CoreInputs ==
    { Undef,
      Obj(Title, StartDate, EndDate, Num(8), Str(<<"great">>), Str(<<"drama">>), Num(0)) }

Titles == {Undef, Str(<<>>), Str(<<"Show X">>)}
CoreTitles == {Str(<<>>), Str(<<"Show X">>)}

Prefixes ==
    { <<>>, <<"\n">>, FenceJson, FenceJson \o <<"\n">>, Fence, Fence \o <<"\n">>,
      Fence \o <<"J", "S", "O", "N", "\n">> }
Suffixes ==
    { <<>>, <<"\n">>, Fence, <<"\n">> \o Fence, <<"\n">> \o Fence \o <<"\n">> }
Payloads ==
    { P_FULL, P_TWO_SITES, P_EMPTY_OBJECT, P_EMPTY_FIELDS, P_GENRE_STRING,
      P_SITES_STRING, P_NULL, P_NUMBER, P_PROSE }

TransportEnvs ==
    { Env("transport", <<>>, "", <<>>, m) : m \in {"fetch failed", "API key not valid"} }
AllEnvs ==
    TransportEnvs \cup
    { Env("reply", pre, pl, suf, "") : pre \in Prefixes, pl \in Payloads, suf \in Suffixes }
CoreEnvs ==
    { Env("transport", <<>>, "", <<>>, "fetch failed"),
      Env("reply", FenceJson \o <<"\n">>, P_FULL, <<"\n">> \o Fence, "") }


\* -------------------------------------------------------------- library
\* The Database object of node-sqlite3 in its default (parallel) mode.
\* While the open is in progress or has failed, statements wait; on an
\* open handle they run as independent jobs that finish in any order: a
\* job executes its statement on a pool thread and the callback is run in
\* a later turn of the main thread; a
\* db.close waits for the running jobs ("draining"), then runs alone
\* ("closing") while later statements wait behind it; on a closed handle a
\* statement is refused at once.
One(r) == SetToBag({r})
FilterBag(B, Keep(_)) == [e \in {x \in DOMAIN B : Keep(x)} |-> B[e]]
IsStatement(r) == r.op \in {"record", "list", "create"}
IsRequest(r) == r.op \in {"record", "list", "search", "close"}
IsRecord(r) == r.op = "record"
IsSearch(r) == r.op = "search"
IsClose(r) == r.op = "close"
Running(B) == {r \in BagToSet(B) : IsStatement(r) /\ ~r.behind}
Behind(h) == h \in {"closing", "openingClose"}
AfterDone(h, B) == IF h = "draining" /\ Running(B) = {} THEN "closing" ELSE h

\* what a statement that runs is called back with
Exec(f) == IF f = "table" THEN "ok" ELSE MSG_NO_TABLE
Met(f) == IF f = "table" THEN "open" ELSE "uninitialized"

\* the callbacks of the statements left waiting when the handle closes
RECURSIVE AnswerAll(_)
AnswerAll(B) ==
    IF BagToSet(B) = {} THEN <<>>
    ELSE LET r == CHOOSE x \in BagToSet(B) : TRUE
             answer == CASE r.op = "record" ->
                              <<recordViewingHistory(r.data, MSG_HANDLE_CLOSED, "closed")>>
                         [] r.op = "list" ->
                              <<getAllViewingHistory(MSG_HANDLE_CLOSED, <<>>, <<>>, "closed")>>
                         [] OTHER -> <<>>
         IN  answer \o AnswerAll(B (-) One(r))

\* -------------------------------------------------------------- actions
\* lines 10-11: the module is evaluated, new sqlite3.Database has been
\* called on a profile without a database file, nothing has called back.
Init ==
    /\ proc = "running"
    /\ relaunch = FALSE
    /\ handle = "opening"
    /\ file = "none"
    /\ rows = <<>>
    /\ now = 1
    /\ pending = EmptyBag
    /\ last = <<>>

\* the wall clock advances between two reads of new Date()
Tick ==
    /\ now < MaxClock
    /\ now' = now + 1
    /\ last' = <<>>
    /\ UNCHANGED <<proc, relaunch, handle, file, rows, pending>>

\* a handler hands a call over and returns to the event loop
Submit(r) ==
    /\ BagCardinality(FilterBag(pending, IsRequest)) < MaxInFlight
    /\ pending' = pending (+) One(r)

\* lines 33-40 with lines 75-84: 'record-history' arrives
RecordReq(inputs) ==
    /\ proc = "running"
    /\ \E data \in inputs :
          IF ~ReachesDb(data)
          THEN /\ last' = <<recordViewingHistory(data, "none", "n/a")>>
               /\ UNCHANGED pending
          ELSE IF handle = "closed"
          THEN /\ last' = <<recordViewingHistory(data, MSG_DB_CLOSED, "closed")>>
               /\ UNCHANGED pending
          ELSE /\ Len(rows) + BagCardinality(FilterBag(pending, IsRecord)) < MaxRows
               /\ Submit(Request("record", data, RecordedAt(data, now), Behind(handle)))
               /\ last' = <<>>
    /\ UNCHANGED <<proc, relaunch, handle, file, rows, now>>

\* line 84: the library executes the INSERT; the callback is not yet run
RecordExec ==
    /\ proc \in {"running", "quitting"}
    /\ handle \in {"open", "draining"}
    /\ \E r \in Running(pending) :
          /\ r.op = "record"
          /\ r.result = <<>>
          /\ pending' = (pending (-) One(r))
                        (+) One(Executed(r, recordViewingHistory(r.data, Exec(file), Met(file))))
          /\ rows' = IF file = "table"
                     THEN InsertRow(rows, NewRow(r.data, Len(rows) + 1, r.at))
                     ELSE rows
    /\ last' = <<>>
    /\ UNCHANGED <<proc, relaunch, handle, file, now>>

\* lines 84-90 and 35-38: the callback of db.run
RecordDone ==
    /\ proc \in {"running", "quitting"}
    /\ handle \in {"open", "draining"}
    /\ \E r \in Running(pending) :
          /\ r.op = "record"
          /\ r.result # <<>>
          /\ pending' = pending (-) One(r)
          /\ handle' = AfterDone(handle, pending (-) One(r))
          /\ last' = r.result
    /\ UNCHANGED <<proc, relaunch, file, rows, now>>

\* lines 42-44 with lines 93-94: 'get-history' arrives
ListReq ==
    /\ proc = "running"
    /\ IF handle = "closed"
       THEN /\ last' = <<getAllViewingHistory(MSG_DB_CLOSED, <<>>, <<>>, "closed")>>
            /\ UNCHANGED pending
       ELSE /\ Submit(Request("list", Undef, 0, Behind(handle)))
            /\ last' = <<>>
    /\ UNCHANGED <<proc, relaunch, handle, file, rows, now>>

\* line 94: the library executes the SELECT; the callback is not yet run
ListExec ==
    /\ proc \in {"running", "quitting"}
    /\ handle \in {"open", "draining"}
    /\ \E r \in Running(pending), order \in Listings(rows) :
          /\ r.op = "list"
          /\ r.result = <<>>
          /\ pending' = (pending (-) One(r))
                        (+) One(Executed(r, getAllViewingHistory(Exec(file), rows, order, Met(file))))
    /\ last' = <<>>
    /\ UNCHANGED <<proc, relaunch, handle, file, rows, now>>

\* lines 94-110 and 44-47: the callback of db.all, with the rows the
\* SELECT read
ListDone ==
    /\ proc \in {"running", "quitting"}
    /\ handle \in {"open", "draining"}
    /\ \E r \in Running(pending) :
          /\ r.op = "list"
          /\ r.result # <<>>
          /\ pending' = pending (-) One(r)
          /\ handle' = AfterDone(handle, pending (-) One(r))
          /\ last' = r.result
    /\ UNCHANGED <<proc, relaunch, file, rows, now>>

\* lines 51-52 with lines 113-118: 'search-media' arrives; an empty title
\* is answered at once, otherwise generateContent is awaited
SearchReq(titles) ==
    /\ proc = "running"
    /\ \E t \in titles :
          IF ~Truthy(t)
          THEN /\ last' = <<searchMediaWithGemini(t, NoEnv)>>
               /\ UNCHANGED pending
          ELSE /\ Submit(Request("search", t, 0, FALSE))
               /\ last' = <<>>
    /\ UNCHANGED <<proc, relaunch, handle, file, rows, now>>

\* lines 118-139: the awaited call returns or throws
SearchDone(envs) ==
    /\ proc \in {"running", "quitting"}
    /\ \E r \in BagToSet(pending), env \in envs :
          /\ r.op = "search"
          /\ pending' = pending (-) One(r)
          /\ last' = <<searchMediaWithGemini(r.data, env)>>
    /\ UNCHANGED <<proc, relaunch, handle, file, rows, now>>

\* lines 55-57
Recommend ==
    /\ proc = "running"
    /\ last' = <<getAiRecommendationsMedia>>
    /\ UNCHANGED <<proc, relaunch, handle, file, rows, now, pending>>

ResetOutcome(status, success, at) ==
    Outcome("reset", Undef, NoEnv, status, success, <<>>, <<>>, at)

\* lines 60-69, the callback of db.close, run n times in one turn: each
\* run calls fs.unlinkSync, which either removes the file, after which
\* app.relaunch and app.quit are called, or throws (no such file, file in
\* use, no permission) and is only logged.  won is the run that removed
\* the file, 0 for none; more are the callbacks the library runs next.
Unlink(at, n, more) ==
    \E won \in 0..n :
       /\ won > 0 => file # "none"
       /\ last' = [i \in 1..n |->
                     ResetOutcome("resolved", IF i = won THEN "true" ELSE "false", at)]
                  \o more
       /\ IF won > 0
          THEN /\ file' = "none"
               /\ rows' = <<>>
               /\ relaunch' = TRUE
               /\ proc' = "quitting"
          ELSE UNCHANGED <<file, rows, relaunch, proc>>

\* lines 59-60: 'reset-history' arrives and db.close is called.  On an open
\* handle the close starts once the running statements are done; on a
\* closed handle the callback runs at once with an error; behind an open
\* or a close in progress, or after a failed open, the call waits.
ResetRequest ==
    /\ proc = "running"
    /\ \/ /\ handle = "open"
          /\ handle' = IF Running(pending) = {} THEN "closing" ELSE "draining"
          /\ last' = <<>>
          /\ UNCHANGED <<proc, relaunch, file, rows, pending>>
       \/ /\ handle = "opening"
          /\ handle' = "openingClose"
          /\ last' = <<>>
          /\ UNCHANGED <<proc, relaunch, file, rows, pending>>
       \/ /\ handle \in {"openingClose", "draining", "closing", "failed"}
          /\ Submit(Request("close", Undef, 0, TRUE))
          /\ last' = <<>>
          /\ UNCHANGED <<proc, relaunch, handle, file, rows>>
       \/ /\ handle = "closed"
          /\ Unlink(handle, 1, <<>>)
          /\ UNCHANGED <<handle, pending>>
    /\ UNCHANGED now

\* lines 60-69: the callback of db.close, followed in the same turn by the
\* error callbacks of what waited behind the close: further db.close calls
\* and statements
CloseDone ==
    /\ proc \in {"running", "quitting"}
    /\ handle = "closing"
    /\ handle' = "closed"
    /\ pending' = FilterBag(pending, IsSearch)
    /\ Unlink(handle, 1 + BagCardinality(FilterBag(pending, IsClose)),
              AnswerAll(FilterBag(pending, IsStatement)))
    /\ UNCHANGED now

\* lines 11-29: the callback of new sqlite3.Database.  On success the file
\* exists and CREATE TABLE IF NOT EXISTS is handed over (line 16, no
\* callback), and the statements that waited start; on failure line 13
\* logs and they wait for ever.
OpenDone ==
    /\ proc \in {"running", "quitting"}
    /\ handle \in {"opening", "openingClose"}
    /\ \/ /\ handle' = IF handle = "opening" THEN "open" ELSE "draining"
          /\ file' = IF file = "none" THEN "empty" ELSE file
          /\ pending' = pending (+) One(Request("create", Undef, 0, FALSE))
          /\ last' = <<>>
       \/ /\ handle' = "failed"
          /\ last' = <<>>
          /\ UNCHANGED <<file, pending>>
    /\ UNCHANGED <<proc, relaunch, rows, now>>

\* lines 16-27: the library executes CREATE TABLE IF NOT EXISTS; the job
\* is not yet completed
CreateExec ==
    /\ proc \in {"running", "quitting"}
    /\ handle \in {"open", "draining"}
    /\ \E r \in Running(pending) :
          /\ r.op = "create"
          /\ r.result = <<>>
          /\ pending' = (pending (-) One(r)) (+) One(Executed(r, "done"))
    /\ file' = "table"
    /\ last' = <<>>
    /\ UNCHANGED <<proc, relaunch, handle, rows, now>>

\* line 16: the job of CREATE TABLE completes in a later turn of the main
\* thread; the call has no callback, and a waiting db.close may start
CreateDone ==
    /\ proc \in {"running", "quitting"}
    /\ handle \in {"open", "draining"}
    /\ \E r \in Running(pending) :
          /\ r.op = "create"
          /\ r.result # <<>>
          /\ pending' = pending (-) One(r)
          /\ handle' = AfterDone(handle, pending (-) One(r))
    /\ last' = <<>>
    /\ UNCHANGED <<proc, relaunch, file, rows, now>>

\* lines 172-174: the last window is closed and app.quit is called
Quit ==
    /\ proc = "running"
    /\ proc' = "quitting"
    /\ last' = <<>>
    /\ UNCHANGED <<relaunch, handle, file, rows, now, pending>>

\* the process ends; calls still in flight are never answered, and what
\* the library has written stays in the file
Exit ==
    /\ proc = "quitting"
    /\ proc' = "exited"
    /\ handle' = "closed"
    /\ pending' = EmptyBag
    /\ last' = <<>>
    /\ UNCHANGED <<relaunch, file, rows, now>>

\* lines 10-11 in a new process, relaunched or started by the user
Start ==
    /\ proc = "exited"
    /\ proc' = "running"
    /\ handle' = "opening"
    /\ relaunch' = FALSE
    /\ last' = <<>>
    /\ UNCHANGED <<file, rows, now, pending>>

Next ==
    \/ Tick
    \/ RecordReq(CoreInputs)
    \/ RecordExec
    \/ RecordDone
    \/ ListReq
    \/ ListExec
    \/ ListDone
    \/ SearchReq(CoreTitles)
    \/ SearchDone(CoreEnvs)
    \/ Recommend
    \/ ResetRequest
    \/ CloseDone
    \/ OpenDone
    \/ CreateExec
    \/ CreateDone
    \/ Quit
    \/ Exit
    \/ Start

Spec == Init /\ [][Next]_vars

\* The lookup alone, over every reply and failure of the service.
NextLookup ==
    \/ SearchReq(Titles)
    \/ SearchDone(AllEnvs)

SpecLookup == Init /\ [][NextLookup]_vars

\* The store alone, over the inputs of 'record-history' that lack a
\* required field (no object at all among them), and one that lacks none.
NextRecord ==
    \/ RecordReq({Undef, Minimal} \cup InvalidInputs)
    \/ RecordExec
    \/ RecordDone
    \/ ListReq
    \/ ListExec
    \/ ListDone
    \/ OpenDone
    \/ CreateExec
    \/ CreateDone

SpecRecord == Init /\ [][NextRecord]_vars

\* The store alone, over the combinations of the optional fields.
NextList ==
    \/ RecordReq(ValidInputs)
    \/ RecordExec
    \/ RecordDone
    \/ ListReq
    \/ ListExec
    \/ ListDone
    \/ OpenDone
    \/ CreateExec
    \/ CreateDone

SpecList == Init /\ [][NextList]_vars

TypeOK ==
    /\ proc \in {"running", "quitting", "exited"}
    /\ relaunch \in BOOLEAN
    /\ handle \in {"opening", "openingClose", "open", "draining", "closing", "closed", "failed"}
    /\ file \in {"none", "empty", "table"}
    /\ Len(rows) <= MaxRows
    /\ now \in 1..MaxClock
    /\ (file # "table" => rows = <<>>)
    /\ BagCardinality(FilterBag(pending, IsRequest)) <= MaxInFlight
    /\ (handle = "closing" => Running(pending) = {})
    /\ \A r \in BagToSet(pending) : r.result # <<>> => (IsStatement(r) /\ ~r.behind)
    /\ (handle = "closed" => FilterBag(pending, IsStatement) = EmptyBag)

\* --------------------------------------------------------------- claims
\* the answers the most recent step gave
Answers == {last[i] : i \in DOMAIN last}

\* A required field as the claims word it: present and non-empty.
Present(v) == v.k = "str" /\ v.s # <<>>
RequiredPresent(data) ==
    Present(data.mediaTitle) /\ Present(data.startDate) /\ Present(data.endDate)

\* C1: every record input with non-empty mediaTitle, startDate and endDate,
\* run against an open store, returns success, and a listAll shows every
\* stored record with each record ahead of all records stored before it.
C1_ValidRecordListedFirst ==
    \A o \in Answers :
       /\ (o.op = "record" /\ o.data.k = "obj" /\ RequiredPresent(o.data) /\ o.at = "open")
          => (o.status = "resolved" /\ o.success = "true")
       /\ (o.op = "list" /\ o.at = "open")
          => \A i, j \in 1..Len(o.order) : i < j => o.order[i] > o.order[j]

\* C2: a record input in which mediaTitle, startDate or endDate is missing
\* or empty (an input with no object among them) never reaches the store,
\* so that no row is inserted for it, and is answered with the structured
\* value {success:false, message}, not with a rejection.
C2_InvalidInputRejected ==
    /\ \A r \in BagToSet(pending) :
          r.op = "record" => (r.data.k = "obj" /\ RequiredPresent(r.data))
    /\ \A o \in Answers :
          (o.op = "record" /\ (o.data.k # "obj" \/ ~RequiredPresent(o.data)))
          => (/\ o.status = "resolved"
              /\ o.success = "false"
              /\ o.text # <<>>)

\* The step executes the INSERT of the record request r, which becomes q.
InsertExecuted(r, q) ==
    /\ r.op = "record"
    /\ r.result = <<>>
    /\ q.result # <<>>
    /\ q = Executed(r, q.result[1])
    /\ pending' = (pending (-) One(r)) (+) One(q)

C4_AppendOnlyOutsideReset ==
    [][ /\ ((\E o \in Answers' : o.op \in {"list", "search", "recommend", "record"})
            /\ ~(\E o \in Answers' : o.op = "reset"))
           => rows' = rows
        /\ \A o \in Answers' :
              (o.op = "record" /\ o.success = "true")
              => \E r \in BagToSet(pending) : r.result = <<o>>
        /\ \A r \in BagToSet(pending), q \in BagToSet(pending') :
              (InsertExecuted(r, q) /\ q.result[1].success = "true")
              => /\ Len(rows') = Len(rows) + 1
                 /\ SubSeq(rows', 1, Len(rows)) = rows
                 /\ \A i \in 1..Len(rows) : rows'[Len(rows')].id # rows[i].id
        /\ rows' # rows
           => \/ \E r \in BagToSet(pending), q \in BagToSet(pending') :
                    InsertExecuted(r, q) /\ q.result[1].success = "true"
              \/ /\ \E o \in Answers' : o.op = "reset" /\ o.success = "true"
                 /\ file' = "none"
                 /\ rows' = <<>> ]_vars

C4_Witness ==
    /\ \E o \in Answers : o.op = "record" /\ o.success = "true"
    /\ Len(rows) = 2
    /\ rows[1].id = 1
    /\ rows[2].id = 2

\* C5: no record or listAll is answered from a store whose handle a reset
\* has closed in the same process lifetime.
C5_NoUseAfterClose ==
    \A o \in Answers : o.op \in {"record", "list"} => o.at # "closed"

\* C6: once the reset's close callback has run, the file and its records
\* are gone and the process is on its way to a relaunch.
C6_ResetDestroysAndRestarts ==
    \A o \in Answers :
       (o.op = "reset" /\ o.status = "resolved")
       => (file = "none" /\ rows = <<>> /\ relaunch /\ proc = "quitting")

\* C7: every record and listAll request resolves to a value; from a closed
\* store record resolves to {success:false, message} and listAll to an
\* error message.
C7_AlwaysResolvesToValue ==
    \A o \in Answers :
       o.op \in {"record", "list"}
       => /\ o.status = "resolved"
          /\ o.text # <<>>
          /\ (o.op = "record" /\ o.at = "closed") => o.success = "false"

\* C8: for a non-empty title lookup always resolves to a text; after a
\* transport failure the text names the title; after a reply that is no
\* JSON the text is the unparseable-response notice followed by the reply
\* without its fence; a JSON reply with missing or mistyped fields
\* resolves to a text too.
C8_LookupNeverFails ==
    \A o \in Answers :
       (o.op = "search" /\ Present(o.data))
       => /\ o.status = "resolved"
          /\ o.text # <<>>
          /\ o.env.kind = "transport" => IsInfix(o.data.s, o.text)
          /\ (o.env.kind = "reply" /\ o.env.payload = P_PROSE)
             => /\ Head(o.text) = MSG_UNPARSEABLE
                /\ IsInfix(<<P_PROSE>>, Tail(o.text))
                /\ IsInfix(Tail(o.text), Raw(o.env))
                /\ (o.env.pre \in {<<>>, FenceJson, FenceJson \o <<"\n">>}
                     /\ o.env.suf \in {<<>>, Fence, <<"\n">> \o Fence})
                   => Tail(o.text) = <<P_PROSE>>

C8_Witness ==
    \E o \in Answers :
       /\ o.op = "search"
       /\ Present(o.data)
       /\ o.env.kind = "reply"
       /\ o.env.payload = P_GENRE_STRING
       /\ o.env.pre = FenceJson \o <<"\n">>
       /\ o.env.suf = <<"\n">> \o Fence
       /\ o.status = "resolved"
       /\ o.text = <<MSG_UNPARSEABLE, P_GENRE_STRING>>

\* The line of one stored record as C9 words it.
ClaimedLine(row) ==
    <<"* ">> \o row.start_date.s \o <<" ~ ">> \o row.end_date.s \o <<": ">>
    \o row.media_title.s
    \o (IF row.rating.k = "int" THEN <<" (rating:", ToString(row.rating.n), ")">> ELSE <<>>)
    \o (IF row.notes.k = "str" /\ \E i \in 1..Len(row.notes.s) : ~IsWs(row.notes.s[i])
        THEN <<" [memo: ">> \o row.notes.s \o <<"]">> ELSE <<>>)
    \o (IF row.tags.k = "str" /\ \E i \in 1..Len(row.tags.s) : ~IsWs(row.tags.s[i])
        THEN <<" [tags: ">> \o row.tags.s \o <<"]">> ELSE <<>>)
    \o <<"\n">>

\* C9: each listed line carries the rating suffix exactly when the rating
\* is present, the notes suffix exactly when notes is present and
\* non-blank, the tags suffix exactly when tags is present and non-blank,
\* in that order.
C9_SuffixesExactlyWhenPresent ==
    \A o \in Answers :
       (o.op = "list" /\ o.status = "resolved" /\ Len(o.order) > 0)
       => o.text = <<MSG_HEADER>>
                   \o Flatten([i \in 1..Len(o.order) |-> ClaimedLine(rows[o.order[i]])])

OpeningFences == {FenceJson, FenceJson \o <<"\n">>, Fence, Fence \o <<"\n">>}
ClosingFences == {Fence, <<"\n">> \o Fence, <<"\n">> \o Fence \o <<"\n">>}

\* C10: a valid JSON object wrapped in any enclosing code fence, with or
\* without a language tag, with or without whitespace after the closing
\* fence, is parsed and rendered as the formatted block with its summary,
\* its genres joined by ', ' and one '- ' line per streaming site.
C10_AnyFenceStripped ==
    \A o \in Answers :
       (/\ o.op = "search"
        /\ Present(o.data)
        /\ o.env.kind = "reply"
        /\ o.env.payload = P_FULL
        /\ o.env.pre \in OpeningFences
        /\ o.env.suf \in ClosingFences)
       => /\ Head(o.text) # MSG_UNPARSEABLE
          /\ IsInfix(<<"S">>, o.text)
          /\ IsInfix(<<"A", ", ", "B">>, o.text)
          /\ IsInfix(<<"- ", "Netflix">>, o.text)

====
